---- MODULE Spec2Model ----
(***************************************************************************)
(* The FAA data sync pipeline of backend/sync: the Fetcher                 *)
(* (download_faa_data.py), the Change Detector and the Record Loaders      *)
(* (import_to_db.py), the schema (database.py) and the orchestrator        *)
(* (sync_faa_data.py), as one sequential process that is started again     *)
(* and again and may be killed at any step.                                *)
(*                                                                         *)
(* Strings are sequences of one-character strings.  A text cell of the     *)
(* store is such a sequence or None; an integer cell is <<n>> or Null.     *)
(***************************************************************************)
EXTENDS Integers, Sequences, FiniteSets, TLC

\* ------------------------------------------------------------------ bounds

\* The file clock stops at MaxClock: no run starts once it is reached.
MaxClock == 2

\* Commit interval of the three loaders, scaled to the file lengths of the
\* model (the code commits every 10000, 5000 and 50000 written rows).
ModelBatch == 2
EngineBatch == 2
AircraftBatch == 2

\* --------------------------------------------------------------- constants

\* download_file(..., max_retries: int = 5, ...)
max_retries == 5

\* tail_number[:5] of the lookup.
TailNumberLen == 5

\* Declared lengths handed to truncate_string for the three key columns.
ModelCodeLen == 7
EngineCodeLen == 5
NNumberLen == 5
MfrLen == 30
EngineMfrLen == 50

\* Absent values.
None == <<"None">>
Null == <<>>
NoFile == "NoFile"

\* ------------------------------------------------------------ source data

\* The three source files with the engine file handled first.
FileNamesEngineFirst == <<"ENGINE.txt", "ACFTREF.txt", "MASTER.txt">>

\* The three source files, in the order import_faa_data handles them, with
\* the name file_metadata keeps for each.
FileNames == <<"ACFTREF.txt", "ENGINE.txt", "MASTER.txt">>

FileSet == {FileNames[i] : i \in 1..Len(FileNames)}

MetaName(f) ==
    CASE f = "ACFTREF.txt" -> "Aircraft Reference File"
      [] f = "ENGINE.txt" -> "Engine Reference File"
      [] f = "MASTER.txt" -> "Aircraft Registration Master File"

\* The contents a source file can have: the records csv.DictReader yields,
\* each with its key field, one text field and one integer field.
\*   M1  CODE,MFR,NO-ENG / M1,CESSNA,1 / M2,PIPER,
\*   M2  CODE,MFR,NO-ENG / "M1","      ",2 / "  ",PIPER,
\*   MX  CODE,MFR,NO-ENG / M1,CESSNA,1 / M2,PIPER,x
\*   E1  CODE,MFR,HORSEPOWER / E1,LYCOMING,180 / "E1 ",CONTINENTAL,
\*   A1  N-NUMBER,MFR MDL CODE,YEAR MFR / "  ",M1, / "100A ",M1,1975 / "200B ",M2,
\*   A2  N-NUMBER,MFR MDL CODE,YEAR MFR / "100a ",M1,1980 / "100A ",M2, / 100A,,
\* Archive Z1 holds M1, E1 and A1; Z2 holds M2, E1 and A2; Z3 holds MX and E1
\* and no MASTER.txt.
Rec(k, s, n) == [key |-> k, text |-> s, num |-> n]

cM1 == <<"M", "1">>
cM2 == <<"M", "2">>
cCessna == <<"C", "E", "S", "S", "N", "A">>
cPiper == <<"P", "I", "P", "E", "R">>

Records(c) ==
    CASE c = "M1" -> << Rec(cM1, cCessna, <<"1">>), Rec(cM2, cPiper, <<>>) >>
      [] c = "M2" -> << Rec(cM1, <<" ", " ", " ", " ", " ", " ">>, <<"2">>),
                        Rec(<<" ", " ">>, cPiper, <<>>) >>
      [] c = "MX" -> << Rec(cM1, cCessna, <<"1">>), Rec(cM2, cPiper, <<"x">>) >>
      [] c = "E1" -> << Rec(<<"E", "1">>, <<"L", "Y", "C", "O", "M", "I", "N", "G">>,
                            <<"1", "8", "0">>),
                        Rec(<<"E", "1", " ">>,
                            <<"C", "O", "N", "T", "I", "N", "E", "N", "T", "A", "L">>, <<>>) >>
      [] c = "A1" -> << Rec(<<" ", " ">>, cM1, <<>>),
                        Rec(<<"1", "0", "0", "A", " ">>, cM1, <<"1", "9", "7", "5">>),
                        Rec(<<"2", "0", "0", "B", " ">>, cM2, <<>>) >>
      [] c = "A2" -> << Rec(<<"1", "0", "0", "a", " ">>, cM1, <<"1", "9", "8", "0">>),
                        Rec(<<"1", "0", "0", "A", " ">>, cM2, <<>>),
                        Rec(<<"1", "0", "0", "A">>, <<>>, <<>>) >>

\* The bodies the remote endpoint can serve to a request: ZIP archives (stored, fixed
\* entry dates) of the files above.  Z1 and Z2 have the same length.
Bodies == {"Z1", "Z2", "Z3"}

Members(z) ==
    CASE z = "Z1" -> [f \in FileSet |->
                        CASE f = "ACFTREF.txt" -> "M1"
                          [] f = "ENGINE.txt" -> "E1"
                          [] f = "MASTER.txt" -> "A1"]
      [] z = "Z2" -> [f \in FileSet |->
                        CASE f = "ACFTREF.txt" -> "M2"
                          [] f = "ENGINE.txt" -> "E1"
                          [] f = "MASTER.txt" -> "A2"]
      [] z = "Z3" -> [f \in FileSet |->
                        CASE f = "ACFTREF.txt" -> "MX"
                          [] f = "ENGINE.txt" -> "E1"
                          [] f = "MASTER.txt" -> NoFile]

\* Length in bytes of each content.
SizeOf(c) ==
    CASE c = "Z1" -> 465 [] c = "Z2" -> 465 [] c = "Z3" -> 308
      [] c = "M1" -> 38 [] c = "M2" -> 38 [] c = "MX" -> 39
      [] c = "E1" -> 53 [] c = "A1" -> 62 [] c = "A2" -> 62

\* A checksum that tells contents apart by their length only.
ChecksumBySize(c) == SizeOf(c)

\* hashlib.md5 of each content, as hexdigest() returns it.
calculate_md5(c) ==
    CASE c = "Z1" -> "9321e1c827727530d663a84be738103f"
      [] c = "Z2" -> "ce89c11832c09b2b7a7703620627c0b8"
      [] c = "Z3" -> "d20cabcf5c6241d3f151947cae8d338b"
      [] c = "M1" -> "de4dafc4ddd30797e74469aa87e4b9ab"
      [] c = "M2" -> "34ec3ec1ee1ccc5537b4e6cb161f53d9"
      [] c = "MX" -> "3e918e9e3a8dbff6dde197b3ee8a9b81"
      [] c = "E1" -> "b70f48ea8fb5fe79f1784e44863b7a57"
      [] c = "A1" -> "53c973d304d85209fd9fce4c1f430687"
      [] c = "A2" -> "98d85c1ff98560f886ec237c2ca1a8b4"

\* --------------------------------------------------------- pure functions

IsSpace(ch) == ch \in {" ", "\t"}

RECURSIVE LStrip(_)
LStrip(s) ==
    IF s = <<>> THEN s
    ELSE IF IsSpace(Head(s)) THEN LStrip(Tail(s)) ELSE s

RECURSIVE RStrip(_)
RStrip(s) ==
    IF s = <<>> THEN s
    ELSE IF IsSpace(s[Len(s)]) THEN RStrip(SubSeq(s, 1, Len(s) - 1)) ELSE s

\* str.strip()
Strip(s) == RStrip(LStrip(s))

\* value[:n]
Slice(s, n) == SubSeq(s, 1, IF Len(s) < n THEN Len(s) ELSE n)

\* truncate_string without .strip(): None for a falsy value, else the first
\* max_length characters.
truncate_string_unstripped(value, max_length) ==
    IF value = <<>> \/ value = None THEN None
    ELSE Slice(value, max_length)

\* truncate_string(value, max_length): None for a falsy value, else the
\* first max_length characters, stripped, or None when that is empty.
truncate_string(value, max_length) ==
    IF value = <<>> \/ value = None THEN None
    ELSE IF Strip(Slice(value, max_length)) = <<>> THEN None
    ELSE Strip(Slice(value, max_length))

Digits == <<"0", "1", "2", "3", "4", "5", "6", "7", "8", "9">>

IsDigit(ch) == \E d \in 1..10 : Digits[d] = ch

DigitVal(ch) == (CHOOSE d \in 1..10 : Digits[d] = ch) - 1

RECURSIVE DecVal(_)
DecVal(s) == IF s = <<>> THEN 0 ELSE 10 * DecVal(SubSeq(s, 1, Len(s) - 1)) + DigitVal(s[Len(s)])

\* int(x) of a stripped, non-empty string: a decimal numeral, else ValueError.
IntParses(s) == s # <<>> /\ \A i \in 1..Len(s) : IsDigit(s[i])

\* int(field.strip() or 0) raises ValueError
RaisesValueError(field) == Strip(field) # <<>> /\ ~IntParses(Strip(field))

\* int(field.strip() or 0), for a field that does not raise
IntOrZero(field) == IF Strip(field) = <<>> THEN <<0>> ELSE <<DecVal(Strip(field))>>

\* int(field.strip() or 0) if field.strip() else None
IntOrNone(field) == IF Strip(field) = <<>> THEN Null ELSE <<DecVal(Strip(field))>>

\* parse_date(date_str): None for an empty or whitespace-only value; the
\* stripped value cut into year-month-day when it has 8 characters; None
\* for any other length.
parse_date(date_str) ==
    IF date_str = <<>> \/ date_str = None \/ Strip(date_str) = <<>> THEN None
    ELSE IF Len(Strip(date_str)) = 8
         THEN SubSeq(Strip(date_str), 1, 4) \o <<"-">> \o SubSeq(Strip(date_str), 5, 6)
                \o <<"-">> \o SubSeq(Strip(date_str), 7, 8)
         ELSE None

LowerCase == <<"a", "b", "c", "d", "e", "f", "g", "h", "i", "j", "k", "l", "m",
               "n", "o", "p", "q", "r", "s", "t", "u", "v", "w", "x", "y", "z">>

UpperCase == <<"A", "B", "C", "D", "E", "F", "G", "H", "I", "J", "K", "L", "M",
               "N", "O", "P", "Q", "R", "S", "T", "U", "V", "W", "X", "Y", "Z">>

\* str.upper(), and SQL UPPER()
Upper(s) ==
    [i \in 1..Len(s) |->
        IF \E j \in 1..26 : LowerCase[j] = s[i]
        THEN UpperCase[CHOOSE j \in 1..26 : LowerCase[j] = s[i]]
        ELSE s[i]]

\* SQL TRIM(): spaces only.
RECURSIVE SqlTrim(_)
SqlTrim(s) ==
    IF s = <<>> THEN s
    ELSE IF Head(s) = " " THEN SqlTrim(Tail(s))
    ELSE IF s[Len(s)] = " " THEN SqlTrim(SubSeq(s, 1, Len(s) - 1))
    ELSE s

\* datetime.fromtimestamp(st_mtime): the file clock ticks in half seconds.
fromtimestamp(t) == [sec |-> t \div 2, us |-> (t % 2) * 500000]

\* datetime.isoformat(): the fraction is left out when microsecond is 0.
isoformat(d) == IF d.us = 0 THEN <<d.sec>> ELSE <<d.sec, d.us>>

\* datetime.fromisoformat()
fromisoformat(s) == [sec |-> s[1], us |-> IF Len(s) = 1 THEN 0 ELSE s[2]]


\* ------------------------------------------------------------------ state

VARIABLES
    zip,                 \* data/ReleasableAircraft.zip: a body or NoFile
    temp,                \* data/temp_ReleasableAircraft.zip
    dirExists,           \* data/FAA_Database exists
    files,               \* the source files in data/FAA_Database
    clock,               \* the file system's time, in ticks
    db,                  \* the committed content of faa_aircraft.db
    tx,                  \* the content the open connection sees
    pc,                  \* where the running process is ("idle": none runs)
    entry,               \* the script that was started
    attempt,             \* download_file's attempt
    update_happened,
    download_succeeded,
    cur,                 \* index in FileNames of the file being handled
    pos,                 \* next record of the loader, next member of extractall
    count,               \* the loader's count
    exit_code,           \* how the last process ended
    exc,                 \* the exception that ended it, if any
    \* history, read only by the properties
    zip0,                \* zip when the run started
    dir0,                \* dirExists when the run started
    fetched,             \* the body the successful attempt received
    tries,               \* requests made by download_file in this run
    extracted,           \* extract_zip was called in this run
    checked,             \* has_file_changed's answer per file in this run
    interrupted,         \* files whose last loader run was cut short
    lastFetch,           \* the body the last Fetcher call returned ok with, else NoFile
    settled,             \* "imported": the last import stage returned and nothing was
                         \* extracted since; "refetched": and then a Fetcher call returned
                         \* ok and unchanged; else "no"
    fresh,               \* the table was empty when the last loader started
    \* a call of a function of the program on its own: a conversion of the
    \* loaders, or a lookup of the API
    call

fsVars == <<zip, temp, dirExists, files, clock>>
dbVars == <<db, tx>>
procVars == <<pc, entry, attempt, update_happened, download_succeeded, cur, pos, count,
              exit_code, exc>>
histVars == <<zip0, dir0, fetched, tries, extracted, checked, interrupted, lastFetch,
              settled, fresh>>
vars == <<fsVars, dbVars, procVars, histVars, call>>

NoTemp == [body |-> NoFile, complete |-> FALSE]
\* The temp file after a download that broke off: a prefix of some body.
Partial == [body |-> "prefix", complete |-> FALSE]
Absent == [body |-> NoFile, mtime |-> 0]
EmptyDb == [schema |-> FALSE, meta |-> <<>>, aircraft_model |-> <<>>, engine |-> <<>>,
            aircraft |-> <<>>]

FetchPcs == {"dl_loop", "cu_compare", "cu_discard", "cu_remove", "cu_rename",
             "de_dispatch", "ex_mkdir", "ex_members", "fetch_ret"}
ImportPcs == {"imp_init", "imp_check", "imp_load", "imp_finish"}

\* No call: nothing was applied yet.
NoCall == [fn |-> "none", arg |-> <<>>, max_length |-> 0, ret |-> None]

\* The installation before the first run: no archive, no extracted files,
\* no database file, no process.
Installed ==
    /\ zip = NoFile
    /\ temp = NoTemp
    /\ dirExists = FALSE
    /\ files = [f \in FileSet |-> Absent]
    /\ clock = 0
    /\ db = EmptyDb
    /\ tx = EmptyDb
    /\ pc = "idle"
    /\ entry = "none"
    /\ attempt = 1
    /\ update_happened = FALSE
    /\ download_succeeded = FALSE
    /\ cur = 1
    /\ pos = 1
    /\ count = 0
    /\ exit_code = "none"
    /\ exc = "none"
    /\ zip0 = NoFile
    /\ dir0 = FALSE
    /\ fetched = NoFile
    /\ tries = 0
    /\ extracted = FALSE
    /\ checked = [f \in FileSet |-> "none"]
    /\ interrupted = {}
    /\ lastFetch = NoFile
    /\ settled = "no"
    /\ fresh = FALSE

Init == Installed /\ call = NoCall

\* ---------------------------------------------------- process start and end

\* A script is started: sync_faa_data.py (main) or import_to_db.py
\* (import_faa_data alone).
Start(e) ==
    /\ pc = "idle"
    /\ e = "import" \/ clock < MaxClock
    /\ entry' = e
    /\ pc' = IF e = "import" THEN "imp_init" ELSE "dl_loop"
    /\ attempt' = 1
    /\ update_happened' = FALSE
    /\ download_succeeded' = FALSE
    /\ cur' = 1
    /\ pos' = 1
    /\ count' = 0
    /\ exit_code' = "running"
    /\ exc' = "none"
    /\ zip0' = zip
    /\ dir0' = dirExists
    /\ fetched' = NoFile
    /\ tries' = 0
    /\ extracted' = FALSE
    /\ checked' = [f \in FileSet |-> "none"]
    /\ UNCHANGED <<fsVars, dbVars, interrupted, lastFetch, settled>>
    /\ UNCHANGED <<fresh, call>>

StartSync == Start("sync")

StartImport == Start("import")

\* The process ends with exit status `code`, by exception `e` if any: its
\* locals are gone, and so is what the run's history kept about them.
End(code, e) ==
    /\ pc' = "idle"
    /\ exit_code' = code
    /\ exc' = e
    /\ attempt' = 1
    /\ update_happened' = FALSE
    /\ download_succeeded' = FALSE
    /\ cur' = 1
    /\ pos' = 1
    /\ count' = 0
    /\ zip0' = NoFile
    /\ dir0' = FALSE
    /\ fetched' = NoFile
    /\ tries' = 0
    /\ extracted' = FALSE
    /\ checked' = [f \in FileSet |-> "none"]

\* The process is killed, at any step: what its connection had not
\* committed is rolled back.
Crash ==
    /\ pc # "idle"
    /\ End("killed", "none")
    /\ tx' = db
    /\ interrupted' = IF pc = "imp_load" THEN interrupted \cup {FileNames[cur]} ELSE interrupted
    /\ lastFetch' = IF pc \in FetchPcs THEN NoFile ELSE lastFetch
    /\ settled' = IF pc \in ImportPcs THEN "no" ELSE settled
    /\ UNCHANGED <<fsVars, db, entry>>
    /\ UNCHANGED <<fresh, call>>

\* ---------------------------------------------------------------- Fetcher

\* download_file without `attempt += 1`.
download_file_no_increment ==
    /\ pc = "dl_loop"
    /\ attempt <= max_retries
    /\ tries <= max_retries
    /\ tries' = tries + 1
    /\ \/ \E body \in Bodies :
             /\ temp' = [body |-> body, complete |-> TRUE]
             /\ download_succeeded' = TRUE
             /\ fetched' = body
             /\ pc' = "cu_compare"
       \/ UNCHANGED <<temp, download_succeeded, fetched, pc>>
       \/ /\ temp' = Partial
          /\ UNCHANGED <<download_succeeded, fetched, pc>>
    /\ UNCHANGED <<zip, dirExists, files, clock, dbVars, entry, attempt, update_happened,
                   cur, pos, count, exit_code, exc, zip0, dir0, extracted, checked,
                   interrupted, lastFetch, settled>>
    /\ UNCHANGED <<fresh, call>>

\* download_file taking a response that broke off for a complete one.
download_file_accepts_partial ==
    /\ pc = "dl_loop"
    /\ attempt <= max_retries
    /\ tries' = tries + 1
    /\ \/ \E body \in Bodies :
             /\ temp' = [body |-> body, complete |-> TRUE]
             /\ download_succeeded' = TRUE
             /\ fetched' = body
             /\ pc' = "cu_compare"
             /\ UNCHANGED attempt
       \/ /\ attempt' = attempt + 1
          /\ UNCHANGED <<temp, download_succeeded, fetched, pc>>
       \/ /\ temp' = Partial
          /\ download_succeeded' = TRUE
          /\ fetched' = Partial.body
          /\ pc' = "cu_compare"
          /\ UNCHANGED attempt
    /\ UNCHANGED <<zip, dirExists, files, clock, dbVars, entry, update_happened, cur, pos,
                   count, exit_code, exc, zip0, dir0, extracted, checked, interrupted,
                   lastFetch, settled>>
    /\ UNCHANGED <<fresh, call>>

\* One pass of download_file's loop: the request succeeds and the body the
\* endpoint serves is written to `path`, or it fails (RequestException)
\* before the file is opened, or while the body is being written.
download_file ==
    /\ pc = "dl_loop"
    /\ attempt <= max_retries
    /\ tries' = tries + 1
    /\ \/ \E body \in Bodies :
             /\ temp' = [body |-> body, complete |-> TRUE]
             /\ download_succeeded' = TRUE
             /\ fetched' = body
             /\ pc' = "cu_compare"
             /\ UNCHANGED attempt
       \/ /\ attempt' = attempt + 1
          /\ UNCHANGED <<temp, download_succeeded, fetched, pc>>
       \/ /\ attempt' = attempt + 1
          /\ temp' = Partial
          /\ UNCHANGED <<download_succeeded, fetched, pc>>
    /\ UNCHANGED <<zip, dirExists, files, clock, dbVars, entry, update_happened, cur, pos,
                   count, exit_code, exc, zip0, dir0, extracted, checked, interrupted,
                   lastFetch, settled>>
    /\ UNCHANGED <<fresh, call>>

\* The loop ends with every attempt failed: download_file returns False and
\* check_and_update_file returns (False, False).
download_file_exhausted ==
    /\ pc = "dl_loop"
    /\ attempt > max_retries
    /\ pc' = "de_dispatch"
    /\ UNCHANGED <<fsVars, dbVars, entry, attempt, update_happened, download_succeeded,
                   cur, pos, count, exit_code, exc, histVars>>
    /\ UNCHANGED call

\* check_and_update_file, after the download: the checksums are compared
\* when an archive exists.
\* A comparison that never finds the two checksums equal.
ChecksumsNeverEqual == FALSE

ChecksumsEqual == zip # NoFile /\ calculate_md5(zip) = calculate_md5(temp.body)

compare_checksums ==
    /\ pc = "cu_compare"
    /\ pc' = IF ChecksumsEqual THEN "cu_discard" ELSE "cu_remove"
    /\ attempt' = 1
    /\ tries' = 0
    /\ UNCHANGED <<fsVars, dbVars, entry, update_happened, download_succeeded, cur, pos,
                   count, exit_code, exc, zip0, dir0, fetched, extracted, checked,
                   interrupted, lastFetch, settled>>
    /\ UNCHANGED <<fresh, call>>

\* discard_temp without os.remove(temp_zip_path).
discard_temp_keeps_file ==
    /\ pc = "cu_discard"
    /\ update_happened' = FALSE
    /\ pc' = "de_dispatch"
    /\ UNCHANGED <<fsVars, dbVars, entry, attempt,
                   download_succeeded, cur, pos, count, exit_code, exc, histVars>>
    /\ UNCHANGED call

\* os.remove(temp_zip_path); return False, True
discard_temp ==
    /\ pc = "cu_discard"
    /\ temp' = NoTemp
    /\ update_happened' = FALSE
    /\ pc' = "de_dispatch"
    /\ UNCHANGED <<zip, dirExists, files, clock, dbVars, entry, attempt,
                   download_succeeded, cur, pos, count, exit_code, exc, histVars>>
    /\ UNCHANGED call

\* if zip_path.exists(): os.remove(zip_path)
remove_old ==
    /\ pc = "cu_remove"
    /\ zip' = NoFile
    /\ pc' = "cu_rename"
    /\ UNCHANGED <<temp, dirExists, files, clock, dbVars, entry, attempt,
                   update_happened, download_succeeded, cur, pos, count, exit_code, exc,
                   histVars>>
    /\ UNCHANGED call

\* os.rename(temp_zip_path, zip_path); return True, True
rename_temp ==
    /\ pc = "cu_rename"
    /\ zip' = temp.body
    /\ temp' = NoTemp
    /\ update_happened' = TRUE
    /\ pc' = "de_dispatch"
    /\ UNCHANGED <<dirExists, files, clock, dbVars, entry, attempt,
                   download_succeeded, cur, pos, count, exit_code, exc, histVars>>
    /\ UNCHANGED call

\* download_and_extract_faa_data, after check_and_update_file returned.
\* The dispatch without its `if not extract_path.exists()` branch.
ExtractOnlyWhenChanged == download_succeeded /\ update_happened

NeedsExtract == download_succeeded /\ (update_happened \/ ~dirExists)

dispatch ==
    /\ pc = "de_dispatch"
    /\ pc' = IF NeedsExtract THEN "ex_mkdir" ELSE "fetch_ret"
    /\ attempt' = 1
    /\ tries' = 0
    /\ UNCHANGED <<fsVars, dbVars, entry, update_happened, download_succeeded, cur, pos,
                   count, exit_code, exc, zip0, dir0, fetched, extracted, checked,
                   interrupted, lastFetch, settled>>
    /\ UNCHANGED <<fresh, call>>

\* extract_zip: extract_to.mkdir(parents=True, exist_ok=True)
extract_mkdir ==
    /\ pc = "ex_mkdir"
    /\ dirExists' = TRUE
    /\ clock' = clock + 1
    /\ extracted' = TRUE
    /\ settled' = "no"
    /\ pos' = 1
    /\ pc' = "ex_members"
    /\ UNCHANGED <<zip, temp, files, dbVars, entry, attempt, update_happened,
                   download_succeeded, cur, count, exit_code, exc, zip0, dir0, fetched,
                   tries, checked, interrupted, lastFetch>>
    /\ UNCHANGED <<fresh, call>>

\* extract_zip: zip_ref.extractall(extract_to), one member at a time; a
\* written file gets the current time as its modification time.
extract_member ==
    /\ pc = "ex_members"
    /\ pos <= Len(FileNames)
    /\ LET f == FileNames[pos]
           c == Members(zip)[f]
       IN  /\ files' = IF c = NoFile THEN files
                       ELSE [files EXCEPT ![f] = [body |-> c, mtime |-> clock]]
           /\ interrupted' = IF c = NoFile THEN interrupted ELSE interrupted \ {f}
    /\ pos' = pos + 1
    /\ UNCHANGED <<zip, temp, dirExists, clock, dbVars, pc, entry, attempt,
                   update_happened, download_succeeded, cur, count, exit_code, exc, zip0,
                   dir0, fetched, tries, extracted, checked, lastFetch, settled>>
    /\ UNCHANGED <<fresh, call>>

\* extract_zip returns, and download_and_extract_faa_data after it.
\* An extraction that also forgets the recorded file metadata.
extract_done_forgets_metadata ==
    /\ pc = "ex_members"
    /\ pos > Len(FileNames)
    /\ pc' = "fetch_ret"
    /\ pos' = 1
    /\ db' = [db EXCEPT !.meta = <<>>]
    /\ tx' = [tx EXCEPT !.meta = <<>>]
    /\ UNCHANGED <<fsVars, entry, attempt, update_happened, download_succeeded,
                   cur, count, exit_code, exc, histVars>>
    /\ UNCHANGED call

extract_done ==
    /\ pc = "ex_members"
    /\ pos > Len(FileNames)
    /\ pc' = "fetch_ret"
    /\ pos' = 1
    /\ UNCHANGED <<fsVars, dbVars, entry, attempt, update_happened, download_succeeded,
                   cur, count, exit_code, exc, histVars>>
    /\ UNCHANGED call


\* ----------------------------------------------------------- Orchestrator

FetcherResult == IF download_succeeded THEN fetched ELSE NoFile

Refetched ==
    IF settled = "imported" /\ download_succeeded /\ ~update_happened /\ ~extracted
    THEN "refetched" ELSE settled

\* main() without `if not download_success: sys.exit(1)`.
MainIgnoresFailure ==
    /\ pc = "fetch_ret"
    /\ entry = "sync"
    /\ lastFetch' = FetcherResult
    /\ settled' = Refetched
    /\ pc' = "main_import"
    /\ UNCHANGED <<fsVars, dbVars, entry, attempt, update_happened, download_succeeded,
                   cur, pos, count, exit_code, exc, zip0, dir0, fetched, tries, extracted,
                   checked, interrupted>>
    /\ UNCHANGED <<fresh, call>>

\* main(): download_and_extract_faa_data() returned;
\* if not download_success: sys.exit(1)
main_after_download ==
    /\ pc = "fetch_ret"
    /\ entry = "sync"
    /\ lastFetch' = FetcherResult
    /\ settled' = Refetched
    /\ IF download_succeeded
       THEN /\ pc' = "main_import"
            /\ UNCHANGED <<attempt, update_happened, download_succeeded, cur, pos, count,
                           exit_code, exc, zip0, dir0, fetched, tries, extracted, checked>>
       ELSE End("1", "none")
    /\ UNCHANGED <<fsVars, dbVars, entry, interrupted>>
    /\ UNCHANGED <<fresh, call>>

\* The keyword arguments main() passes to import_faa_data, and the
\* parameters import_faa_data declares.
MainKeywords == {"force"}

ImportParameters == {}

\* Python binds the call's keywords to the parameters, or raises TypeError.
CallBinds == MainKeywords \subseteq ImportParameters

\* main() with an except clause that reports the error and exits 0.
main_import_swallows ==
    /\ pc = "main_import"
    /\ IF CallBinds
       THEN /\ pc' = "imp_init"
            /\ UNCHANGED <<attempt, update_happened, download_succeeded, cur, pos, count,
                           exit_code, exc, zip0, dir0, fetched, tries, extracted, checked>>
       ELSE End("0", "TypeError")
    /\ UNCHANGED <<fsVars, dbVars, entry, interrupted, lastFetch, settled>>
    /\ UNCHANGED <<fresh, call>>

\* main(): try: import_faa_data(force=False) ... except Exception: sys.exit(1)
main_import ==
    /\ pc = "main_import"
    /\ IF CallBinds
       THEN /\ pc' = "imp_init"
            /\ UNCHANGED <<attempt, update_happened, download_succeeded, cur, pos, count,
                           exit_code, exc, zip0, dir0, fetched, tries, extracted, checked>>
       ELSE End("1", "TypeError")
    /\ UNCHANGED <<fsVars, dbVars, entry, interrupted, lastFetch, settled>>
    /\ UNCHANGED <<fresh, call>>

\* ------------------------------------------------------- Change Detector

Put(fn, k, v) == [x \in (DOMAIN fn) \cup {k} |-> IF x = k THEN v ELSE fn[x]]

\* file_mtime and file_md5sum of a source file, as has_file_changed stores them.
CurrentPair(f) ==
    [date |-> isoformat(fromtimestamp(files[f].mtime)), md5 |-> calculate_md5(files[f].body)]

\* has_file_changed comparing the stored ISO string with the datetime: never
\* equal, so every existing file counts as changed.
has_file_changed_unparsed(f) == files[f].body # NoFile

\* has_file_changed comparing the checksums only.
has_file_changed_md5_only(f) ==
    /\ files[f].body # NoFile
    /\ ~ /\ MetaName(f) \in DOMAIN tx.meta
         /\ tx.meta[MetaName(f)].md5 = calculate_md5(files[f].body)

\* has_file_changed's result: False for a missing file and for a stored row
\* whose parsed date and checksum both equal the file's.
has_file_changed(f) ==
    /\ files[f].body # NoFile
    /\ ~ /\ MetaName(f) \in DOMAIN tx.meta
         /\ fromisoformat(tx.meta[MetaName(f)].date) = fromtimestamp(files[f].mtime)
         /\ tx.meta[MetaName(f)].md5 = calculate_md5(files[f].body)

\* ---------------------------------------------------------- Record Loaders

KeyLen(f) ==
    CASE f = "ACFTREF.txt" -> ModelCodeLen
      [] f = "ENGINE.txt" -> EngineCodeLen
      [] f = "MASTER.txt" -> NNumberLen

TextLen(f) ==
    CASE f = "ACFTREF.txt" -> MfrLen
      [] f = "ENGINE.txt" -> EngineMfrLen
      [] f = "MASTER.txt" -> ModelCodeLen

Batch(f) ==
    CASE f = "ACFTREF.txt" -> ModelBatch
      [] f = "ENGINE.txt" -> EngineBatch
      [] f = "MASTER.txt" -> AircraftBatch

TableOf(f) ==
    CASE f = "ACFTREF.txt" -> "aircraft_model"
      [] f = "ENGINE.txt" -> "engine"
      [] f = "MASTER.txt" -> "aircraft"

\* The integer cell: 0 for an empty field in the two reference loaders, NULL
\* in the aircraft loader.
NumCell(f, field) == IF f = "MASTER.txt" THEN IntOrNone(field) ELSE IntOrZero(field)

\* The row a loader writes for a record.
RowOf(f, r) == [text |-> truncate_string(r.text, TextLen(f)), num |-> NumCell(f, r.num)]

\* INSERT OR REPLACE
Upsert(d, f, r) ==
    [d EXCEPT ![TableOf(f)] = Put(d[TableOf(f)], truncate_string(r.key, KeyLen(f)), RowOf(f, r))]

\* The INSERT OR REPLACE statement of each loader: the columns it names and
\* the `?` placeholders of its VALUES list.
InsertColumns(f) ==
    CASE f = "ACFTREF.txt" -> 13
      [] f = "ENGINE.txt" -> 6
      [] f = "MASTER.txt" -> 34

InsertPlaceholders(f) ==
    CASE f = "ACFTREF.txt" -> 13
      [] f = "ENGINE.txt" -> 6
      [] f = "MASTER.txt" -> 33

\* cursor.execute raises sqlite3.OperationalError ("33 values for 34
\* columns") for a statement whose two counts differ.
RaisesOperationalError(f) == InsertColumns(f) # InsertPlaceholders(f)


\* ------------------------------------------------------------ Import stage

\* import_faa_data: init_database() creates the tables and indexes that do
\* not exist and commits; the function returns when data/FAA_Database is
\* missing, and the script (or main, with sys.exit(0)) ends.
import_begin ==
    /\ pc = "imp_init"
    /\ db' = [db EXCEPT !.schema = TRUE]
    /\ tx' = db'
    /\ IF dirExists
       THEN /\ pc' = "imp_check"
            /\ UNCHANGED <<attempt, update_happened, download_succeeded, cur, pos, count,
                           exit_code, exc, zip0, dir0, fetched, tries, extracted, checked,
                           settled>>
       ELSE /\ End("0", "none")
            /\ settled' = "imported"
    /\ UNCHANGED <<fsVars, entry, interrupted, lastFetch>>
    /\ UNCHANGED <<fresh, call>>

\* After the file at `cur`: the next file, or the end of the three calls.
NextFile ==
    /\ cur' = cur + 1
    /\ pc' = IF cur = Len(FileNames) THEN "imp_finish" ELSE "imp_check"

\* load_data_if_changed with a has_file_changed that records a missing
\* file (an empty row for its name) before it answers False.
load_data_if_changed_records_missing ==
    /\ pc = "imp_check"
    /\ LET f == FileNames[cur] IN
       IF has_file_changed(f)
       THEN /\ tx' = [tx EXCEPT !.meta = Put(tx.meta, MetaName(f), CurrentPair(f))]
            /\ db' = tx'
            /\ checked' = [checked EXCEPT ![f] = "true"]
            /\ pc' = "imp_load"
            /\ pos' = 1
            /\ count' = 0
            /\ UNCHANGED cur
       ELSE /\ checked' = [checked EXCEPT ![f] = "false"]
            /\ NextFile
            /\ tx' = IF files[f].body # NoFile THEN tx
                     ELSE [tx EXCEPT !.meta = Put(tx.meta, MetaName(f), [date |-> None, md5 |-> None])]
            /\ db' = tx'
            /\ UNCHANGED <<pos, count>>
    /\ UNCHANGED <<fsVars, entry, attempt, update_happened, download_succeeded, exit_code,
                   exc, zip0, dir0, fetched, tries, extracted, interrupted, lastFetch,
                   settled>>
    /\ fresh' = IF pc' = "imp_load" THEN DOMAIN tx[TableOf(FileNames[cur])] = {} ELSE fresh
    /\ UNCHANGED call

\* load_data_if_changed with a has_file_changed that raises for a missing
\* file instead of answering False.
load_data_if_changed_missing_fatal ==
    /\ pc = "imp_check"
    /\ LET f == FileNames[cur] IN
       IF files[f].body = NoFile
       THEN /\ End("1", "FileNotFoundError")
            /\ settled' = "no"
            /\ tx' = db
            /\ UNCHANGED db
       ELSE IF has_file_changed(f)
       THEN /\ tx' = [tx EXCEPT !.meta = Put(tx.meta, MetaName(f), CurrentPair(f))]
            /\ db' = tx'
            /\ checked' = [checked EXCEPT ![f] = "true"]
            /\ pc' = "imp_load"
            /\ pos' = 1
            /\ count' = 0
            /\ UNCHANGED <<cur, exit_code, exc, attempt, update_happened,
                           download_succeeded, zip0, dir0, fetched, tries, extracted,
                           settled>>
       ELSE /\ checked' = [checked EXCEPT ![f] = "false"]
            /\ NextFile
            /\ UNCHANGED <<dbVars, pos, count, exit_code, exc, attempt, update_happened,
                           download_succeeded, zip0, dir0, fetched, tries, extracted,
                           settled>>
    /\ UNCHANGED <<fsVars, entry, interrupted, lastFetch>>
    /\ fresh' = IF pc' = "imp_load" THEN DOMAIN tx[TableOf(FileNames[cur])] = {} ELSE fresh
    /\ UNCHANGED call

\* load_data_if_changed with a has_file_changed that clears file_metadata
\* before it writes the file's row.
load_data_if_changed_clears_metadata ==
    /\ pc = "imp_check"
    /\ LET f == FileNames[cur] IN
       IF has_file_changed(f)
       THEN /\ tx' = [tx EXCEPT !.meta = Put(<<>>, MetaName(f), CurrentPair(f))]
            /\ db' = tx'
            /\ checked' = [checked EXCEPT ![f] = "true"]
            /\ pc' = "imp_load"
            /\ pos' = 1
            /\ count' = 0
            /\ UNCHANGED cur
       ELSE /\ checked' = [checked EXCEPT ![f] = "false"]
            /\ NextFile
            /\ UNCHANGED <<dbVars, pos, count>>
    /\ UNCHANGED <<fsVars, entry, attempt, update_happened, download_succeeded, exit_code,
                   exc, zip0, dir0, fetched, tries, extracted, interrupted, lastFetch,
                   settled>>
    /\ fresh' = IF pc' = "imp_load" THEN DOMAIN tx[TableOf(FileNames[cur])] = {} ELSE fresh
    /\ UNCHANGED call

\* load_data_if_changed up to the call of the loader: has_file_changed
\* writes and commits the file's metadata row and returns True, or returns
\* False and the file is skipped.
load_data_if_changed ==
    /\ pc = "imp_check"
    /\ LET f == FileNames[cur] IN
       IF has_file_changed(f)
       THEN /\ tx' = [tx EXCEPT !.meta = Put(tx.meta, MetaName(f), CurrentPair(f))]
            /\ db' = tx'
            /\ checked' = [checked EXCEPT ![f] = "true"]
            /\ pc' = "imp_load"
            /\ pos' = 1
            /\ count' = 0
            /\ UNCHANGED cur
       ELSE /\ checked' = [checked EXCEPT ![f] = "false"]
            /\ NextFile
            /\ UNCHANGED <<dbVars, pos, count>>
    /\ UNCHANGED <<fsVars, entry, attempt, update_happened, download_succeeded, exit_code,
                   exc, zip0, dir0, fetched, tries, extracted, interrupted, lastFetch,
                   settled>>
    /\ fresh' = IF pc' = "imp_load" THEN DOMAIN tx[TableOf(FileNames[cur])] = {} ELSE fresh
    /\ UNCHANGED call

\* A loader whose exception is caught around it: the import stage goes on
\* with the next file.
load_record_continues ==
    /\ pc = "imp_load"
    /\ pos <= Len(Records(files[FileNames[cur]].body))
    /\ LET f == FileNames[cur]
           r == Records(files[f].body)[pos]
       IN  IF truncate_string(r.key, KeyLen(f)) = None
           THEN /\ pos' = pos + 1
                /\ UNCHANGED <<dbVars, pc, count, exit_code, exc, interrupted, settled,
                               attempt, update_happened, download_succeeded, cur, zip0,
                               dir0, fetched, tries, extracted, checked>>
           ELSE IF RaisesValueError(r.num) \/ RaisesOperationalError(f)
           THEN /\ NextFile
                /\ pos' = 1
                /\ count' = 0
                /\ tx' = db
                /\ interrupted' = interrupted \cup {f}
                /\ UNCHANGED <<db, exit_code, exc, settled, attempt, update_happened,
                               download_succeeded, zip0, dir0, fetched, tries, extracted,
                               checked>>
           ELSE /\ tx' = Upsert(tx, f, r)
                /\ count' = count + 1
                /\ db' = IF count' % Batch(f) = 0 THEN tx' ELSE db
                /\ pos' = pos + 1
                /\ UNCHANGED <<pc, exit_code, exc, interrupted, settled, attempt,
                               update_happened, download_succeeded, cur, zip0, dir0,
                               fetched, tries, extracted, checked>>
    /\ UNCHANGED <<fsVars, entry, lastFetch>>
    /\ UNCHANGED <<fresh, call>>

\* One pass of a loader's loop over the records of its file: a record with
\* an empty key is skipped; a non-numeric integer field raises ValueError
\* while the values are built, and a statement that does not prepare raises
\* OperationalError (the process ends with status 1, under main() through
\* its except clause); any other record is upserted and every Batch(f) rows
\* committed.
load_record ==
    /\ pc = "imp_load"
    /\ pos <= Len(Records(files[FileNames[cur]].body))
    /\ LET f == FileNames[cur]
           r == Records(files[f].body)[pos]
       IN  IF truncate_string(r.key, KeyLen(f)) = None
           THEN /\ pos' = pos + 1
                /\ UNCHANGED <<dbVars, pc, count, exit_code, exc, interrupted, settled,
                               attempt, update_happened, download_succeeded, cur, zip0,
                               dir0, fetched, tries, extracted, checked>>
           ELSE IF RaisesValueError(r.num) \/ RaisesOperationalError(f)
           THEN /\ End("1", IF RaisesValueError(r.num) THEN "ValueError"
                            ELSE "OperationalError")
                /\ tx' = db
                /\ interrupted' = interrupted \cup {f}
                /\ settled' = "no"
                /\ UNCHANGED db
           ELSE /\ tx' = Upsert(tx, f, r)
                /\ count' = count + 1
                /\ db' = IF count' % Batch(f) = 0 THEN tx' ELSE db
                /\ pos' = pos + 1
                /\ UNCHANGED <<pc, exit_code, exc, interrupted, settled, attempt,
                               update_happened, download_succeeded, cur, zip0, dir0,
                               fetched, tries, extracted, checked>>
    /\ UNCHANGED <<fsVars, entry, lastFetch>>
    /\ UNCHANGED <<fresh, call>>

\* The loader's loop is over: the final commit, and the loader returns.
load_done ==
    /\ pc = "imp_load"
    /\ pos > Len(Records(files[FileNames[cur]].body))
    /\ db' = tx
    /\ interrupted' = interrupted \ {FileNames[cur]}
    /\ NextFile
    /\ pos' = 1
    /\ count' = 0
    /\ UNCHANGED <<fsVars, tx, entry, attempt, update_happened, download_succeeded,
                   exit_code, exc, zip0, dir0, fetched, tries, extracted, checked,
                   lastFetch, settled>>
    /\ UNCHANGED <<fresh, call>>

\* import_faa_data: conn.commit(); conn.close(); the summary line; the
\* script ends, or main() calls sys.exit(0).
import_finish ==
    /\ pc = "imp_finish"
    /\ db' = tx
    /\ End("0", "none")
    /\ settled' = "imported"
    /\ UNCHANGED <<fsVars, tx, entry, interrupted, lastFetch>>
    /\ UNCHANGED <<fresh, call>>

\* ------------------------------------------------------------ specification

FetchStep ==
    \/ download_file
    \/ download_file_exhausted
    \/ compare_checksums
    \/ discard_temp
    \/ remove_old
    \/ rename_temp
    \/ dispatch
    \/ extract_mkdir
    \/ extract_member
    \/ extract_done

MainStep ==
    \/ main_after_download
    \/ main_import

ImportStep ==
    \/ import_begin
    \/ load_data_if_changed
    \/ load_record
    \/ load_done
    \/ import_finish

Next ==
    \/ StartSync
    \/ StartImport
    \/ FetchStep
    \/ MainStep
    \/ ImportStep
    \/ Crash

Spec == Init /\ [][Next]_vars

\* sync_faa_data.py alone, started again and again: a started process runs
\* on until it ends or is killed.
SyncNext ==
    \/ StartSync
    \/ FetchStep
    \/ MainStep
    \/ Crash

SyncSpec == Init /\ [][SyncNext]_vars /\ WF_vars(FetchStep \/ MainStep)

\* ------------------------------------------------------------ the lookup

\* Longest tail number a request carries.
MaxTailLen == 6

\* Characters of the requests: a space, the prefix letter in both cases,
\* a digit.
TailAlphabet == {" ", "N", "n", "1"}

RECURSIVE StringsOfLen(_, _)
StringsOfLen(A, n) ==
    IF n = 0 THEN {<<>>}
    ELSE {<<a>> \o s : a \in A, s \in StringsOfLen(A, n - 1)}

\* The path parameter {tail_number}: any non-empty string, here of at most
\* n characters.
TailNumbers(n) == UNION {StringsOfLen(TailAlphabet, k) : k \in 1..n}

\* The normalization without upper(), for comparison.
normalized_as_typed(tail_number) ==
    LET stripped == Strip(tail_number)
        body == IF stripped # <<>> /\ Head(stripped) = "N" THEN Tail(stripped) ELSE stripped
    IN  Slice(Strip(body), TailNumberLen)

\* The key get_aircraft_by_tail_number binds to its query: strip, upper-case,
\* drop one leading N, strip again, first five characters.
normalized(tail_number) ==
    LET upper == Upper(Strip(tail_number))
        body == IF upper # <<>> /\ Head(upper) = "N" THEN Tail(upper) ELSE upper
    IN  Slice(Strip(body), TailNumberLen)

\* One row of the SELECT: the aircraft row with the columns of the
\* aircraft_model row of its mfr_model_code, NULL when there is none. No
\* modelled record carries an engine code, so the engine columns are NULL.
Joined(d, k) ==
    [n_number |-> k,
     mfr_model_code |-> d.aircraft[k].text,
     year_mfr |-> d.aircraft[k].num,
     aircraft_manufacturer_name |->
         IF d.aircraft[k].text \in DOMAIN d.aircraft_model
         THEN d.aircraft_model[d.aircraft[k].text].text ELSE None,
     number_of_engines |->
         IF d.aircraft[k].text \in DOMAIN d.aircraft_model
         THEN d.aircraft_model[d.aircraft[k].text].num ELSE Null,
     engine_manufacturer_name |-> None,
     horsepower |-> Null]

\* The rows WHERE UPPER(TRIM(a.n_number)) = ? selects.
Selected(d, key) ==
    {Joined(d, k) : k \in {x \in DOMAIN d.aircraft : Upper(SqlTrim(x)) = key}}

\* The rows get_aircraft_by_tail_number can return: none for an empty key,
\* else what fetchone() can give.
get_aircraft_by_tail_number(d, tail_number) ==
    IF normalized(tail_number) = <<>> THEN {}
    ELSE Selected(d, normalized(tail_number))

\* A handler that rejects a tail number longer than five characters.
status_code_validating(tail_number, aircraft_data) ==
    IF Len(Strip(tail_number)) > TailNumberLen THEN "400"
    ELSE IF aircraft_data = {} THEN "404" ELSE "200"

\* The status of the answer: HTTPException(status_code=404) when nothing
\* was found.
status_code(tail_number, aircraft_data) ==
    IF aircraft_data = {} THEN "404" ELSE "200"

\* One request to an endpoint. get_db_connection creates the schema when
\* there is no database file.
Request(endpoint) ==
    /\ call.fn = "none"
    /\ call.arg # <<>>
    /\ pc = "idle"
    /\ IF normalized(call.arg) = <<>>
       THEN UNCHANGED dbVars
       ELSE /\ db' = [db EXCEPT !.schema = TRUE]
            /\ tx' = db'
    /\ \E aircraft_data \in
            IF get_aircraft_by_tail_number(db, call.arg) = {} THEN {{}}
            ELSE {{r} : r \in get_aircraft_by_tail_number(db, call.arg)} :
          call' = [call EXCEPT !.fn = endpoint,
                               !.ret = [normalized |-> normalized(call.arg),
                                        status |-> status_code(call.arg, aircraft_data),
                                        rows |-> aircraft_data]]
    /\ UNCHANGED <<fsVars, procVars, histVars>>

get_aircraft_json == Request("get_aircraft_json")

get_aircraft_text == Request("get_aircraft_text")

get_aircraft_curl == Request("get_aircraft_curl")

LookupInit ==
    /\ Installed
    /\ call \in {[NoCall EXCEPT !.arg = x] : x \in TailNumbers(MaxTailLen)}

LookupNext ==
    \/ get_aircraft_json
    \/ get_aircraft_text
    \/ get_aircraft_curl

LookupSpec == LookupInit /\ [][LookupNext]_vars

\* ------------------------------------------------- the field conversions

\* Longest field value.
MaxFieldLen == 8

\* Largest max_length handed to truncate_string.
MaxLength == 2

\* Characters of the field values: a digit, a letter, a space.
FieldAlphabet == {"2", "x", " "}

\* The values of a field, here of at most n characters.
FieldValues(n) == UNION {StringsOfLen(FieldAlphabet, k) : k \in 0..n}

apply_parse_date ==
    /\ call.fn = "none"
    /\ call' = [call EXCEPT !.fn = "parse_date", !.ret = parse_date(call.arg)]
    /\ UNCHANGED <<fsVars, dbVars, procVars, histVars>>

apply_truncate_string ==
    /\ call.fn = "none"
    /\ \E n \in 1..MaxLength :
          call' = [call EXCEPT !.fn = "truncate_string", !.max_length = n,
                               !.ret = truncate_string(call.arg, n)]
    /\ UNCHANGED <<fsVars, dbVars, procVars, histVars>>

FieldInit ==
    /\ Installed
    /\ call \in {[NoCall EXCEPT !.arg = x] : x \in FieldValues(MaxFieldLen)}

FieldNext ==
    \/ apply_parse_date
    \/ apply_truncate_string

FieldSpec == FieldInit /\ [][FieldNext]_vars

\* ------------------------------------------------------------- properties

HasRows(t) == DOMAIN t # {}

\* C1: every run of main in which the Fetcher returns ok and no loader
\* fails ends with exit status 0.
C1_SuccessExitsZero ==
    (pc = "idle" /\ entry = "sync" /\ lastFetch # NoFile /\ exit_code \in {"0", "1"}
        /\ exc \notin {"ValueError", "OperationalError"})
    => exit_code = "0"

\* C2: while the loader of a file has not finished, file_metadata does not
\* hold that file's current (mtime, checksum) pair.
C2_MetadataAfterLoad ==
    pc = "imp_load" =>
        ~ /\ MetaName(FileNames[cur]) \in DOMAIN db.meta
          /\ db.meta[MetaName(FileNames[cur])] = CurrentPair(FileNames[cur])

\* C3: a file whose loader was cut short, and that has not changed since,
\* is reported as needing import by the next run's Change Detector.
C3_InterruptedFileReimported ==
    \A f \in FileSet : f \in interrupted => checked[f] # "false"

StoredPairDiffers(d, f) ==
    \/ MetaName(f) \notin DOMAIN d.meta
    \/ d.meta[MetaName(f)] # CurrentPair(f)

MetaRowChanges(f) ==
    \/ (MetaName(f) \in DOMAIN db.meta) # (MetaName(f) \in DOMAIN db'.meta)
    \/ /\ MetaName(f) \in DOMAIN db.meta
       /\ MetaName(f) \in DOMAIN db'.meta
       /\ db.meta[MetaName(f)] # db'.meta[MetaName(f)]

LoaderStarts(f) == pc # "imp_load" /\ pc' = "imp_load" /\ FileNames[cur'] = f

C5_SecondRunNoOp ==
    /\ [](pc = "fetch_ret" /\ download_succeeded /\ lastFetch = fetched => ~update_happened)
    /\ [][(settled # "no" /\ pc \in ImportPcs) => (db' = db /\ pc' # "imp_load")]_vars

C5_Witness ==
    /\ pc = "imp_finish"
    /\ settled = "refetched"
    /\ lastFetch = zip
    /\ \A f \in FileSet : checked[f] = "false"
    /\ HasRows(db.aircraft_model) /\ HasRows(db.engine)

\* C6: a step of a run of main whose download has not succeeded changes
\* neither the archive, nor the extracted directory and its files, nor the
\* store, and does not enter the import stage; when such a run ends it is
\* with a non-zero status.
C6_FailedDownloadAborts ==
    [][(pc # "idle" /\ entry = "sync" /\ pc \in FetchPcs /\ ~download_succeeded')
          => /\ zip' = zip /\ dirExists' = dirExists /\ files' = files /\ db' = db
             /\ pc' \notin ImportPcs \cup {"main_import"}
             /\ pc' = "idle" => exit_code' \in {"1", "killed"}]_vars

C6_Witness ==
    /\ pc = "idle" /\ entry = "sync" /\ exit_code = "1" /\ exc = "none"
    /\ lastFetch = NoFile
    /\ zip # NoFile /\ dirExists

C7_Inv ==
    /\ tries <= max_retries
    /\ pc = "dl_loop" => (tries = attempt - 1 /\ ~download_succeeded /\ zip = zip0)
    /\ pc = "cu_compare" =>
          (download_succeeded /\ tries = attempt /\ temp = [body |-> fetched, complete |-> TRUE])
    /\ (pc = "de_dispatch" /\ ~download_succeeded) =>
          (tries = max_retries /\ attempt = max_retries + 1 /\ zip = zip0)

\* C7: download_file makes at most max_retries requests and none after a
\* successful one, and it returns: True with the body in the temp file
\* after a request that succeeded, False after max_retries failed ones, the
\* archive being as it was.
C7_DownloadBounded ==
    /\ []C7_Inv
    /\ [][tries' > tries => (pc = "dl_loop" /\ ~download_succeeded)]_vars
    /\ (pc = "dl_loop") ~> (pc # "dl_loop")

C7_Witness ==
    /\ pc = "de_dispatch" /\ ~download_succeeded /\ tries = max_retries
    /\ zip # NoFile /\ temp = Partial

\* C8: when check_and_update_file returns after a successful download,
\* changed is true exactly when there was no archive or its content
\* differed from the downloaded one, the temp file is gone, and the archive
\* holds the downloaded content.
C8_ChangedIffDiffers ==
    (pc = "de_dispatch" /\ download_succeeded) =>
        /\ update_happened <=> (zip0 = NoFile \/ zip0 # fetched)
        /\ temp = NoTemp
        /\ zip = fetched

C8_Witness ==
    /\ pc = "de_dispatch" /\ download_succeeded /\ update_happened
    /\ zip0 # NoFile /\ zip0 # fetched /\ SizeOf(zip0) = SizeOf(fetched)

\* C9: while check_and_update_file replaces an existing archive, the
\* archive path holds the old or the new archive at every step.
C9_ArchiveNeverMissing ==
    (pc \in {"cu_compare", "cu_discard", "cu_remove", "cu_rename", "de_dispatch"}
        /\ zip0 # NoFile)
    => zip \in {zip0, fetched}

\* C10: when download_and_extract_faa_data returns, extract_zip was called
\* if changed, and if unchanged with the directory missing; it was not
\* called if unchanged with the directory present, nor after a failed
\* download; and with ok the directory exists.
C10_ExtractWhenNeeded ==
    pc = "fetch_ret" =>
        /\ download_succeeded => dirExists
        /\ extracted <=> (download_succeeded /\ (update_happened \/ ~dir0))

C10_Witness ==
    /\ pc = "fetch_ret" /\ download_succeeded /\ ~update_happened /\ ~dir0 /\ extracted
    /\ \A f \in FileSet : files[f].body = Members(zip)[f]

\* The Change Detector's step on file f: has_file_changed(f) is evaluated
\* and load_data_if_changed acts on its answer.
DetectorStep(f) == pc = "imp_check" /\ FileNames[cur] = f /\ pc' # "idle"

\* C11: has_file_changed on an existing file: with no stored row it inserts
\* the file's current (mtime, checksum) pair and answers true; with a
\* stored row equal to the pair it answers false and writes nothing; with a
\* stored row that differs in either component it updates the row to the
\* pair and answers true.  What it writes is committed.
C11_DetectorCases ==
    [][\A f \in FileSet :
          (DetectorStep(f) /\ files[f].body # NoFile) =>
              IF MetaName(f) \in DOMAIN tx.meta /\ tx.meta[MetaName(f)] = CurrentPair(f)
              THEN checked'[f] = "false" /\ tx' = tx /\ db' = db
              ELSE /\ checked'[f] = "true"
                   /\ MetaName(f) \in DOMAIN tx'.meta
                   /\ tx'.meta[MetaName(f)] = CurrentPair(f)
                   /\ \A n \in DOMAIN tx.meta \ {MetaName(f)} :
                         n \in DOMAIN tx'.meta /\ tx'.meta[n] = tx.meta[n]
                   /\ db' = tx']_vars

\* The engine file was imported before and is extracted again with the same
\* content and a new modification time: the detector answered true.
C11_Witness ==
    /\ pc = "imp_load" /\ FileNames[cur] = "ENGINE.txt" /\ pos = 1
    /\ checked["ENGINE.txt"] = "true"
    /\ HasRows(db.engine)
    /\ db.meta[MetaName("ENGINE.txt")] = CurrentPair("ENGINE.txt")
    /\ files["ENGINE.txt"].mtime > 1

\* C12: has_file_changed on a file that does not exist answers false and
\* leaves file_metadata as it is: no row is inserted or updated.
C12_MissingFileNoMetadata ==
    [][\A f \in FileSet :
          (DetectorStep(f) /\ files[f].body = NoFile) =>
              /\ checked'[f] = "false"
              /\ pc' # "imp_load"
              /\ tx'.meta = tx.meta
              /\ db'.meta = db.meta]_vars

C12_Witness ==
    /\ pc = "imp_finish"
    /\ files["MASTER.txt"].body = NoFile
    /\ checked["MASTER.txt"] = "false"
    /\ MetaName("MASTER.txt") \notin DOMAIN db.meta
    /\ MetaName("ACFTREF.txt") \in DOMAIN db.meta

\* The run is at file f: its detector is about to be asked or its loader runs.
Handling(f) == pc \in {"imp_check", "imp_load"} /\ FileNames[cur] = f

Untouched(f) == checked[f] = "none"

C13_Inv ==
    /\ pc \in FetchPcs \cup {"fetch_ret", "main_import", "imp_init"} =>
          \A f \in FileSet : Untouched(f)
    /\ pc \in {"cu_compare", "cu_discard", "cu_remove", "cu_rename"} =>
          (download_succeeded /\ ~extracted)
    /\ pc \in {"ex_mkdir", "ex_members"} => (download_succeeded /\ zip = fetched)
    /\ (entry = "sync" /\ pc \in ImportPcs \cup {"main_import"}) =>
          (download_succeeded /\ dirExists)
    /\ Handling("ACFTREF.txt") => (Untouched("ENGINE.txt") /\ Untouched("MASTER.txt"))
    /\ Handling("ENGINE.txt") => (~Untouched("ACFTREF.txt") /\ Untouched("MASTER.txt"))
    /\ Handling("MASTER.txt") => (~Untouched("ACFTREF.txt") /\ ~Untouched("ENGINE.txt"))
    /\ pc = "imp_finish" => \A f \in FileSet : ~Untouched(f)

\* C13: within a run the stages come in the order download, extract, model
\* file, engine file, aircraft file, done: the engine step starts only
\* after the model step is over, the aircraft step only after both, a step
\* once over is not entered again, and a loader is left only at the end of
\* its file.
C13_StageOrder ==
    /\ []C13_Inv
    /\ [][\A f \in FileSet :
            /\ (~Untouched(f) /\ pc' # "idle") => checked'[f] = checked[f]
            /\ (pc = "imp_load" /\ FileNames[cur] = f /\ ~Handling(f)' /\ pc' # "idle")
                  => pos > Len(Records(files[f].body))]_vars

C13_Witness ==
    /\ pc = "imp_load" /\ FileNames[cur] = "MASTER.txt"
    /\ checked["ACFTREF.txt"] = "true"
    /\ checked["ENGINE.txt"] = "true"
    /\ checked["MASTER.txt"] = "true"
    /\ HasRows(db.aircraft_model) /\ HasRows(db.engine)

\* C14: in a run of main the store's schema exists before the Fetcher is
\* invoked.
C14_SchemaBeforeFetcher ==
    (entry = "sync" /\ pc \in FetchPcs) => db.schema

\* C15: no loader is ended by a malformed record: a non-numeric integer
\* field does not raise out of the loader.
C15_MalformedRecordTolerated ==
    ~(pc = "idle" /\ exc = "ValueError")

\* C16: a source file missing at import time does not end the import: its
\* loader is not started and the run goes on to the next file; the import
\* stage reaches its end only with the detector asked for all three files,
\* and from there the process ends with status 0.
C16_MissingFileNotFatal ==
    /\ [][\A f \in FileSet :
            (pc = "imp_check" /\ FileNames[cur] = f /\ files[f].body = NoFile
                /\ exit_code' # "killed")
              => /\ pc' \in {"imp_check", "imp_finish"}
                 /\ cur' = cur + 1
                 /\ exit_code' = "running"]_vars
    /\ [](pc = "imp_finish" => \A f \in FileSet : checked[f] # "none")
    /\ [][(pc = "imp_finish" /\ pc' = "idle" /\ exit_code' # "killed")
              => (exit_code' = "0" /\ exc' = "none")]_vars

\* MASTER.txt is missing; the engine file's loader ran in the same run, and
\* the import is at its end.
C16_Witness ==
    /\ pc = "imp_finish"
    /\ files["MASTER.txt"].body = NoFile /\ checked["MASTER.txt"] = "false"
    /\ checked["ACFTREF.txt"] # "none"
    /\ checked["ENGINE.txt"] = "true" /\ HasRows(tx.engine)

\* C17: a process that an exception of the import stage ended has exit
\* status 1, never 0.
C17_ExceptionExitsNonZero ==
    (pc = "idle" /\ exc # "none") => exit_code = "1"

\* main's call of import_faa_data raised, after a download that succeeded.
C17_Witness ==
    /\ pc = "idle" /\ entry = "sync" /\ exc = "TypeError" /\ exit_code = "1"
    /\ lastFetch # NoFile /\ dirExists

Tables == {"aircraft", "aircraft_model", "engine"}

BlankKey(k) == k = None \/ k = Null \/ Strip(k) = <<>>

\* C18: no row of aircraft, aircraft_model or engine has a null, empty or
\* whitespace-only primary key, in the connection or committed; a record
\* whose key field is blank is passed over, nothing is written for it and
\* the loader goes on.
C18_NoBlankKeys ==
    /\ [](\A t \in Tables : \A k \in (DOMAIN tx[t]) \cup (DOMAIN db[t]) : ~BlankKey(k))
    /\ [][(pc = "imp_load" /\ exit_code' # "killed"
            /\ pos <= Len(Records(files[FileNames[cur]].body))
            /\ Strip(Records(files[FileNames[cur]].body)[pos].key) = <<>>)
              => /\ pc' = "imp_load" /\ cur' = cur /\ pos' = pos + 1
                 /\ count' = count /\ tx' = tx /\ db' = db]_vars

\* The model loader has passed the blank-key record of M2 and wrote the
\* record before it.
C18_Witness ==
    /\ pc = "imp_load" /\ FileNames[cur] = "ACFTREF.txt"
    /\ files["ACFTREF.txt"].body = "M2"
    /\ pos = 3 /\ count = 1
    /\ cM1 \in DOMAIN tx.aircraft_model

\* The key a record of file f gets, None when blank.
KeyOf(f, r) == truncate_string(r.key, KeyLen(f))

\* Store d holds, for every keyed record of f's current content (the last
\* one for a key that occurs twice), a row equal to the record's
\* normalization in every column.
RowsMatch(d, f) ==
    LET recs == Records(files[f].body) IN
    \A i \in 1..Len(recs) :
        (/\ KeyOf(f, recs[i]) # None
         /\ \A j \in (i + 1)..Len(recs) : KeyOf(f, recs[j]) # KeyOf(f, recs[i]))
        => /\ KeyOf(f, recs[i]) \in DOMAIN d[TableOf(f)]
           /\ d[TableOf(f)][KeyOf(f, recs[i])] = RowOf(f, recs[i])

\* The loader of f ends, other than by the process being killed or by a
\* malformed record.
LoaderEnds(f) ==
    /\ pc = "imp_load" /\ FileNames[cur] = f
    /\ pc' # "imp_load"
    /\ exit_code' # "killed" /\ exc' # "ValueError"

KeysOfFile(f) ==
    {KeyOf(f, Records(files[f].body)[i]) : i \in 1..Len(Records(files[f].body))} \ {None}

\* The loader of f returns.
LoaderCompletes(f) ==
    /\ pc = "imp_load" /\ FileNames[cur] = f
    /\ pc' \in {"imp_check", "imp_finish"}

\* C20: when the loader of a file returns, the primary keys of its table
\* are exactly the non-blank normalized keys of the file: no row of a
\* record that is no longer in the source is left.
C20_NoStaleRows ==
    [][\A f \in FileSet :
          LoaderCompletes(f) => DOMAIN db'[TableOf(f)] = KeysOfFile(f)]_vars

\* C21: when the loader of a file that started on an empty table is over,
\* the table has exactly one row per distinct non-blank normalized key of
\* the file.
C21_OneRowPerKey ==
    [][\A f \in FileSet :
          (LoaderEnds(f) /\ fresh) => DOMAIN db'[TableOf(f)] = KeysOfFile(f)]_vars

\* A request was answered.
Answered == call.fn \in {"get_aircraft_json", "get_aircraft_text", "get_aircraft_curl"}

\* C22: the normalization of a lookup is idempotent: normalizing the key a
\* request was normalized to gives that key again.
C22_NormalizeIdempotent ==
    Answered => normalized(call.ret.normalized) = call.ret.normalized

\* A tail number body as the registry issues it: one to five characters, a
\* digit first, digits and upper-case letters after it.
IsTailBody(b) ==
    /\ Len(b) \in 1..TailNumberLen
    /\ IsDigit(b[1])
    /\ \A i \in 1..Len(b) : IsDigit(b[i]) \/ \E j \in 1..26 : UpperCase[j] = b[i]

\* C23: a request that is a tail number body, or N and the body, in either
\* case and with or without whitespace around it, is normalized to the body.
C23_CaseAndPrefixInsensitive ==
    Answered =>
        LET typed == Strip(call.arg) IN
        /\ IsTailBody(Upper(typed)) => call.ret.normalized = Upper(typed)
        /\ (typed # <<>> /\ Head(typed) \in {"N", "n"} /\ IsTailBody(Upper(Tail(typed))))
               => call.ret.normalized = Upper(Tail(typed))

\* A lower-case, prefixed body with a space before it was normalized.
C23_Witness ==
    /\ Answered
    /\ call.arg = <<" ", "n", "1", "n", "1">>
    /\ call.ret.normalized = <<"1", "N", "1">>

\* C27: a request for a tail number that has no row in the store is answered
\* with 404 on every endpoint, whatever its form and length.
C27_MissingIs404 ==
    (Answered /\ get_aircraft_by_tail_number(db, call.arg) = {})
        => call.ret.status = "404"

\* A prefixed request of more than five characters was answered 404 on a
\* plain-text endpoint.
C27_Witness ==
    /\ call.fn = "get_aircraft_text"
    /\ call.arg = <<"n", "1", "1", "1", "1", "1">>
    /\ get_aircraft_by_tail_number(db, call.arg) = {}
    /\ call.ret.status = "404"

\* str.lower()
Lower(s) ==
    [i \in 1..Len(s) |->
        IF \E j \in 1..26 : UpperCase[j] = s[i]
        THEN LowerCase[CHOOSE j \in 1..26 : UpperCase[j] = s[i]]
        ELSE s[i]]

\* The forms a request for key k takes: k, N and k, and both in lower case.
LookupForms(k) == {k, <<"N">> \o k, Lower(k), Lower(<<"N">> \o k)}

IsNormalized(k) ==
    /\ k = Strip(k)
    /\ k = Upper(k)
    /\ Len(k) <= TailNumberLen
    /\ normalized(k) = k

FetcherPcs ==
    {"dl_loop", "cu_compare", "cu_discard", "cu_remove", "cu_rename", "de_dispatch",
     "ex_mkdir", "ex_members"}

\* C26: no step of the Fetcher changes the store: the tables aircraft,
\* aircraft_model, engine and file_metadata are the same before and after
\* it, whether the archive changed, did not change, or the download failed.
C26_FetcherLeavesStore ==
    [][(pc \in FetcherPcs) => (db' = db)]_vars

\* The Fetcher returned "changed" after an extraction, over a store that
\* holds rows and metadata.
C26_Witness ==
    /\ pc = "fetch_ret"
    /\ update_happened /\ extracted
    /\ HasRows(db.aircraft_model) /\ HasRows(db.engine)
    /\ db.meta # <<>>

\* C28: parse_date gives YYYY-MM-DD for a value that is exactly 8 digits
\* after trimming, and None for every other value.
C28_ParseDate ==
    call.fn = "parse_date" =>
        LET t == Strip(call.arg) IN
        IF Len(t) = 8 /\ \A i \in 1..8 : IsDigit(t[i])
        THEN call.ret = SubSeq(t, 1, 4) \o <<"-">> \o SubSeq(t, 5, 6) \o <<"-">>
                          \o SubSeq(t, 7, 8)
        ELSE call.ret = None

\* Trim, then keep the first n characters; None when the trimmed value is
\* empty.
TrimThenTruncate(value, n) ==
    IF Strip(value) = <<>> THEN None ELSE Slice(Strip(value), n)

\* C29: truncate_string(value, n) is the value trimmed and then cut to its
\* first n characters, None when the trimmed value is empty; it is never
\* the empty string and never longer than n.
C29_TruncateString ==
    call.fn = "truncate_string" =>
        /\ call.ret = TrimThenTruncate(call.arg, call.max_length)
        /\ call.ret # <<>>
        /\ call.ret = None \/ Len(call.ret) <= call.max_length

\* Record i of f has a key, is the last of its key, and its integer field is
\* empty or whitespace.
BlankInteger(f, i) ==
    LET recs == Records(files[f].body) IN
    /\ KeyOf(f, recs[i]) # None
    /\ \A j \in (i + 1)..Len(recs) : KeyOf(f, recs[j]) # KeyOf(f, recs[i])
    /\ Strip(recs[i].num) = <<>>

\* C30: when a loader is over, the row of a record whose integer field is
\* empty or whitespace holds 0 in aircraft_model and engine, and NULL
\* (year_mfr) in aircraft.
C30_BlankIntegers ==
    [][\A f \in FileSet : LoaderEnds(f) =>
          \A i \in 1..Len(Records(files[f].body)) : BlankInteger(f, i) =>
              /\ KeyOf(f, Records(files[f].body)[i]) \in DOMAIN db'[TableOf(f)]
              /\ db'[TableOf(f)][KeyOf(f, Records(files[f].body)[i])].num
                   = IF f = "MASTER.txt" THEN Null ELSE <<0>>]_vars

\* The three data tables of store d hold no row.
DataTablesEmpty(d) == \A t \in Tables : DOMAIN d[t] = {}

\* C31: while the data tables are empty (as they then were when the import
\* stage began: no step removes a row), the Change Detector sends every
\* present file to its loader, also a file whose stored metadata row equals
\* its current (mtime, checksum).
C31_EmptyStoreForcesImport ==
    [][\A f \in FileSet :
          (DetectorStep(f) /\ files[f].body # NoFile /\ DataTablesEmpty(db))
              => (checked'[f] = "true" /\ pc' = "imp_load")]_vars

\* C32: whenever the Fetcher returns ok, every member of the local archive
\* is extracted with the archive's content, also when an earlier run put
\* the archive in place and ended before its extraction was complete.
C32_OkMeansExtractedCurrent ==
    (pc = "fetch_ret" /\ download_succeeded) =>
        /\ zip # NoFile
        /\ \A f \in FileSet :
              Members(zip)[f] # NoFile => files[f].body = Members(zip)[f]

\* C33: when an extraction is over, the extracted directory holds only files
\* of the current archive: a source file the archive has no member for is
\* not there, so the Change Detector does not find it.
C33_OnlyCurrentMembers ==
    [][(pc = "ex_members" /\ pc' = "fetch_ret") =>
          \A f \in FileSet : Members(zip)[f] = NoFile => files'[f].body = NoFile]_vars

\* C34: the archive is only ever replaced by the complete body of a
\* successful response.  An attempt that succeeds leaves in the temp file
\* the whole body it received and nothing of an earlier attempt; an attempt
\* that fails is counted and leaves the archive alone; and the archive
\* changes only by its removal or by the rename of such a temp file.
C34_ArchiveOnlyFromCompleteBody ==
    [][/\ (pc = "dl_loop" /\ pc' = "cu_compare")
            => (temp'.complete /\ temp'.body \in Bodies /\ temp'.body = fetched')
       /\ (pc = "dl_loop" /\ pc' = "dl_loop") => (zip' = zip /\ attempt' = attempt + 1)
       /\ zip' # zip
            => \/ zip' = NoFile
               \/ /\ pc = "cu_rename"
                  /\ temp.complete /\ temp.body \in Bodies
                  /\ zip' = temp.body /\ zip' = fetched]_vars

\* After failed attempts a request succeeded, and its body is about to
\* replace an archive of another content.
C34_Witness ==
    /\ pc = "cu_compare"
    /\ attempt >= 2
    /\ temp.complete /\ temp.body = fetched
    /\ zip # NoFile /\ zip # temp.body

\* Record i of f has a key that an earlier record of f has too, and is the
\* last record with that key.
LastOfRepeatedKey(f, i) ==
    LET recs == Records(files[f].body) IN
    /\ KeyOf(f, recs[i]) # None
    /\ \E j \in 1..(i - 1) : KeyOf(f, recs[j]) = KeyOf(f, recs[i])
    /\ \A j \in (i + 1)..Len(recs) : KeyOf(f, recs[j]) # KeyOf(f, recs[i])

\* C35: when the loader of a file with several records of the same
\* normalized key is over, the table has the row of that key, with the
\* columns of the last such record.
C35_LastRecordWins ==
    [][\A f \in FileSet : LoaderEnds(f) =>
          \A i \in 1..Len(Records(files[f].body)) : LastOfRepeatedKey(f, i) =>
              /\ KeyOf(f, Records(files[f].body)[i]) \in DOMAIN db'[TableOf(f)]
              /\ db'[TableOf(f)][KeyOf(f, Records(files[f].body)[i])]
                   = RowOf(f, Records(files[f].body)[i])]_vars

\* The loader of the file at cur raises at the record it is at.
LoaderRaises ==
    /\ pc = "imp_load"
    /\ pos <= Len(Records(files[FileNames[cur]].body))
    /\ KeyOf(FileNames[cur], Records(files[FileNames[cur]].body)[pos]) # None
    /\ \/ RaisesValueError(Records(files[FileNames[cur]].body)[pos].num)
       \/ RaisesOperationalError(FileNames[cur])
    /\ exit_code' # "killed"

\* The file_metadata row of file g in store d, if any.
MetaRow(d, g) == IF MetaName(g) \in DOMAIN d.meta THEN <<d.meta[MetaName(g)]>> ELSE <<>>

\* C36: when a loader raises, the run ends there: for every file later in
\* the order, the Change Detector was not invoked in the run, its
\* file_metadata row is as it was (a row changes only when the detector
\* answers true for its file), and the detector's answer for the file is
\* what it was, so a later run finds it needing import as before.
C36_LaterFilesUntouched ==
    [][/\ LoaderRaises =>
            /\ pc' = "idle" /\ exit_code' = "1"
            /\ \A i \in (cur + 1)..Len(FileNames) :
                  /\ checked[FileNames[i]] = "none"
                  /\ MetaRow(db', FileNames[i]) = MetaRow(db, FileNames[i])
                  /\ has_file_changed(FileNames[i])' <=> has_file_changed(FileNames[i])
       /\ \A g \in FileSet :
            MetaRow(db', g) # MetaRow(db, g)
                => (pc = "imp_check" /\ FileNames[cur] = g /\ checked'[g] = "true")]_vars

\* The model loader raised on a non-numeric field; the engine file, later in
\* the order, is there and still counts as changed.
C36_Witness ==
    /\ pc = "idle" /\ exit_code = "1" /\ exc = "ValueError"
    /\ "ACFTREF.txt" \in interrupted
    /\ files["ENGINE.txt"].body # NoFile
    /\ has_file_changed("ENGINE.txt")

\* C38: a call of has_file_changed for file f changes at most the
\* file_metadata row of f: every other row of file_metadata and every row
\* of aircraft, aircraft_model and engine is as before, in the store and in
\* the connection; and when it answers true the row of f is the file's
\* current (mtime, checksum).
C38_DetectorFrame ==
    [][\A f \in FileSet : DetectorStep(f) =>
          /\ \A g \in FileSet \ {f} :
                MetaRow(db', g) = MetaRow(db, g) /\ MetaRow(tx', g) = MetaRow(tx, g)
          /\ \A t \in Tables : db'[t] = db[t] /\ tx'[t] = tx[t]
          /\ checked'[f] = "true"
                => (MetaRow(db', f) = <<CurrentPair(f)>> /\ MetaRow(tx', f) = <<CurrentPair(f)>>)]_vars

\* The detector answered true for the engine file, over a store that holds
\* the row of the model file and rows of aircraft_model.
C38_Witness ==
    /\ pc = "imp_load" /\ FileNames[cur] = "ENGINE.txt" /\ pos = 1
    /\ checked["ENGINE.txt"] = "true"
    /\ MetaRow(db, "ENGINE.txt") = <<CurrentPair("ENGINE.txt")>>
    /\ MetaRow(db, "ACFTREF.txt") # <<>>
    /\ HasRows(db.aircraft_model)

\* C39: when check_and_update_file returns with download_succeeded true,
\* the temporary download file does not exist: it was removed as identical
\* to the archive, or renamed to the archive's path.
C39_NoTempAfterSuccess ==
    (pc = "de_dispatch" /\ download_succeeded) => temp = NoTemp

\* check_and_update_file returned (False, True): the download was identical
\* to the archive and was removed.
C39_Witness ==
    /\ pc = "de_dispatch"
    /\ download_succeeded /\ ~update_happened
    /\ zip # NoFile /\ zip = fetched
    /\ temp = NoTemp

====
